---- MODULE Spec2Model ----
(***************************************************************************)
(* minsub: parameter normalisation and pipeline request assembly.          *)
(*                                                                         *)
(* A Python str is modelled as a sequence of one-character strings, so     *)
(* 'gs://b' is <<"g","s",":","/","/","b">>.  Python's None is the value    *)
(* None below: a one-element sequence whose element is not a character,    *)
(* so it differs from every modelled str.                                  *)
(***************************************************************************)
EXTENDS Integers, Sequences, FiniteSets, TLC

VARIABLES
  flags,         \* the five flag lists handed to args_to_job_params
  steps,         \* the user steps handed to main
  pc,            \* position of the driver (test_manual.main)
  input_index,   \* input_file_param_util._auto_index
  output_index,  \* output_file_param_util._auto_index
  data,          \* env_data, input_data, ...: the five sets the flag loops build
  job,           \* the JobParams object (five sets)
  iter,          \* the iteration order of each of the five sets in this process
  err,           \* the exception raised, "none" if none
  actions,       \* the list of action objects main builds
  doc,           \* the request document
  run,           \* number of the current run of the program on these flags
  prev,          \* outcome of the previous run
  uri_call,      \* arguments of a direct parse_uri call
  uri_ret        \* its outcome

vars == <<flags, steps, pc, input_index, output_index, data, job, iter, err, actions,
          doc, run, prev, uri_call, uri_ret>>

pipeline_vars == <<flags, steps, pc, input_index, output_index, data, job, iter, err,
                   actions, doc, run, prev>>

uri_vars == <<uri_call, uri_ret>>

None == <<"None">>

(***************************************************************************)
(* Bounds of the model.                                                    *)
(***************************************************************************)
\* longest tail that follows the scheme prefix of a raw URI in parse_uri calls
MaxTail == 4

\* most flags one run is given, over the five classes together
MaxFlags == 4

\* most user steps one run is given
MaxSteps == 2

(***************************************************************************)
(* str methods and os.path functions used by the code.                     *)
(***************************************************************************)
startswith(s, p) == Len(s) >= Len(p) /\ SubSeq(s, 1, Len(p)) = p

endswith(s, p) == Len(s) >= Len(p) /\ SubSeq(s, Len(s) - Len(p) + 1, Len(s)) = p

\* s.find(sub) + 1, searching from position i: 0 when sub does not occur
RECURSIVE find_from(_, _, _)
find_from(s, sub, i) ==
  IF i + Len(sub) - 1 > Len(s) THEN 0
  ELSE IF SubSeq(s, i, i + Len(sub) - 1) = sub THEN i
  ELSE find_from(s, sub, i + 1)

\* sub in s
contains(s, sub) == find_from(s, sub, 1) # 0

\* the last position at or before i where s holds the character c, 0 if none
RECURSIVE rfind_from(_, _, _)
rfind_from(s, c, i) ==
  IF i = 0 THEN 0 ELSE IF s[i] = c THEN i ELSE rfind_from(s, c, i - 1)

\* s.rfind(c) + 1 for a single character c
rfind(s, c) == rfind_from(s, c, Len(s))

\* the length of s[:i].rstrip(c) for a single character c
RECURSIVE rstrip_len(_, _, _)
rstrip_len(s, c, i) ==
  IF i = 0 THEN 0 ELSE IF s[i] = c THEN rstrip_len(s, c, i - 1) ELSE i

\* s.rstrip(c) for a single character c
rstrip(s, c) == SubSeq(s, 1, rstrip_len(s, c, Len(s)))

\* s.replace(old, new, 1)
replace_first(s, old, new) ==
  LET i == find_from(s, old, 1) IN
  IF i = 0 THEN s
  ELSE SubSeq(s, 1, i - 1) \o new \o SubSeq(s, i + Len(old), Len(s))

\* posixpath.split once i = p.rfind('/') + 1 is known
split_at(p, i) ==
  <<IF rstrip_len(p, "/", i) # 0 THEN SubSeq(p, 1, rstrip_len(p, "/", i))
    ELSE SubSeq(p, 1, i),
    SubSeq(p, i + 1, Len(p))>>

\* posixpath.split: <<head, tail>>
os_path_split(p) == split_at(p, rfind(p, "/"))

os_path_dirname(p) == os_path_split(p)[1]

os_path_basename(p) == os_path_split(p)[2]

\* posixpath.join(a, b) of two str
os_path_join(a, b) ==
  IF startswith(b, <<"/">>) THEN b
  ELSE IF a = <<>> \/ endswith(a, <<"/">>) THEN a \o b
  ELSE a \o <<"/">> \o b

directory_fmt(directory) == rstrip(directory, "/") \o <<"/">>

(***************************************************************************)
(* URI validation and rewriting (FileParamUtil).                           *)
(***************************************************************************)
GS_PREFIX == <<"g", "s", ":", "/", "/">>

GS_DOCKER == <<"g", "s", "/">>

\* the exception _validate_file_provider raises, "ok" if none
_validate_file_provider(uri) ==
  IF startswith(uri, GS_PREFIX) THEN "ok" ELSE "provider"

\* a validation that lets the filenames "." and ".." through
validate_split_dots(uri, recursive, path, filename) ==
  IF contains(uri, <<"[">>) \/ contains(uri, <<"]">>) THEN "bracket"
  ELSE IF contains(uri, <<"?">>) THEN "question"
  ELSE IF contains(path, <<"*">>) THEN "path_wildcard"
  ELSE IF contains(filename, <<"*", "*">>) THEN "recursive_wildcard"
  ELSE IF ~recursive /\ filename = <<>> THEN "no_filename"
  ELSE "ok"

\* _validate_paths_or_fail after path, filename = os.path.split(uri)
validate_split(uri, recursive, path, filename) ==
  IF contains(uri, <<"[">>) \/ contains(uri, <<"]">>) THEN "bracket"
  ELSE IF contains(uri, <<"?">>) THEN "question"
  ELSE IF contains(path, <<"*">>) THEN "path_wildcard"
  ELSE IF contains(filename, <<"*", "*">>) THEN "recursive_wildcard"
  ELSE IF filename \in {<<".", ".">>, <<".">>} THEN "dot_filename"
  ELSE IF ~recursive /\ filename = <<>> THEN "no_filename"
  ELSE "ok"

\* the exception _validate_paths_or_fail raises, "ok" if none
_validate_paths_or_fail(uri, recursive) ==
  validate_split(uri, recursive, os_path_split(uri)[1], os_path_split(uri)[2])

\* <<normalized, docker_path>>
_gcs_uri_rewriter(raw_uri) ==
  <<raw_uri, replace_first(raw_uri, GS_PREFIX, GS_DOCKER)>>

\* UriParts(path, basename): a basename of None becomes '' (line 114); the
\* str value is path + basename
UriParts(path, basename) ==
  [path |-> path, basename |-> IF basename = None THEN <<>> ELSE basename]

\* str(uri) of a UriParts
UriStr(uri) == uri.path \o uri.basename

\* the uri attribute of a file parameter that has none
NoUri == [path |-> None, basename |-> None]

\* what parse_uri returns for the coerced URI uri once the two validations
\* have ended with provider and paths: [err, docker_path, uri], err the
\* exception raised, "ok" if none
rewrite_uri(uri, provider, paths) ==
  IF provider # "ok" THEN [err |-> provider, docker_path |-> None, uri |-> NoUri]
  ELSE IF paths # "ok" THEN [err |-> paths, docker_path |-> None, uri |-> NoUri]
  ELSE [err |-> "ok",
        docker_path |-> _gcs_uri_rewriter(uri)[2],
        uri |-> UriParts(directory_fmt(os_path_dirname(_gcs_uri_rewriter(uri)[1])),
                         os_path_basename(_gcs_uri_rewriter(uri)[1]))]

\* parse_uri after the coercion of line 205
parse_coerced(uri, recursive) ==
  rewrite_uri(uri, _validate_file_provider(uri),
              _validate_paths_or_fail(uri, recursive))

\* FileParamUtil.parse_uri: [err, docker_path, uri]
parse_uri(raw_uri, recursive) ==
  parse_coerced(IF recursive THEN directory_fmt(raw_uri) ELSE raw_uri, recursive)

(***************************************************************************)
(* Parameter records (EnvParam, InputFileParam, OutputFileParam).          *)
(***************************************************************************)
Letters ==
  {"a", "b", "c", "d", "e", "f", "g", "h", "i", "j", "k", "l", "m", "n",
   "o", "p", "q", "r", "s", "t", "u", "v", "w", "x", "y", "z", "A", "B", "C",
   "D", "E", "F", "G", "H", "I", "J", "K", "L", "M", "N", "O", "P", "Q", "R",
   "S", "T", "U", "V", "W", "X", "Y", "Z"}

Digits == <<"0", "1", "2", "3", "4", "5", "6", "7", "8", "9">>

\* does re.match(r'^[a-zA-Z_][a-zA-Z0-9_]*$', name) succeed: "$" matches at
\* the end of the string and also just before a newline that ends the string
re_match_name(name) ==
  LET n == Len(name)
      body == IF n >= 1 /\ name[n] = "\n" THEN SubSeq(name, 1, n - 1) ELSE name
  IN /\ body # <<>>
     /\ body[1] \in Letters \cup {"_"}
     /\ \A i \in 2..Len(body) : body[i] \in Letters \cup {"_"} \cup {Digits[d] : d \in 1..10}

\* the exception _validate_param_name raises, "ok" if none
_validate_param_name(name) == IF re_match_name(name) THEN "ok" ELSE "name"

NoParam == [name |-> None, value |-> None]

\* EnvParam(name, value): [err, param]
EnvParam(name, value) ==
  IF _validate_param_name(name) # "ok"
  THEN [err |-> "name", param |-> NoParam]
  ELSE [err |-> "ok", param |-> [name |-> name, value |-> value]]

\* InputFileParam / OutputFileParam (name, value, docker_path, uri, recursive):
\* [err, param]; the two classes differ in the text of the error only
FileParam(name, value, docker_path, uri, recursive) ==
  IF _validate_param_name(name) # "ok"
  THEN [err |-> "name", param |-> NoParam]
  ELSE [err |-> "ok",
        param |-> [name |-> name, value |-> value, docker_path |-> docker_path,
                   uri |-> uri, recursive |-> recursive]]

\* make_param once parse_uri has returned parsed
param_of_parsed(name, raw_uri, recursive, parsed) ==
  IF parsed.err # "ok" THEN [err |-> parsed.err, param |-> NoParam]
  ELSE FileParam(name, raw_uri, parsed.docker_path, parsed.uri, recursive)

\* FileParamUtil.make_param: [err, param]
make_param(name, raw_uri, recursive) ==
  IF raw_uri = None \/ raw_uri = <<>>
  THEN FileParam(name, None, None, NoUri, recursive)
  ELSE param_of_parsed(name, raw_uri, recursive, parse_uri(raw_uri, recursive))

\* str(n) of an int n >= 0
RECURSIVE int_str(_)
int_str(n) ==
  IF n < 10 THEN <<Digits[n + 1]>> ELSE int_str(n \div 10) \o <<Digits[(n % 10) + 1]>>

\* FileParamUtil.get_variable_name with _auto_prefix = prefix and
\* _auto_index = index: <<name, _auto_index afterwards>>
get_variable_name(name, prefix, index) ==
  IF name = None \/ name = <<>> THEN <<prefix \o int_str(index), index + 1>>
  ELSE <<name, index>>

AUTO_PREFIX_INPUT == <<"I", "N", "P", "U", "T", "_">>

AUTO_PREFIX_OUTPUT == <<"O", "U", "T", "P", "U", "T", "_">>

(***************************************************************************)
(* Flag parsing (split_pair, parse_pair_args, args_to_job_params).         *)
(***************************************************************************)
\* split_pair(pair_string, separator, nullable_idx) for nullable_idx in {0, 1}
split_pair(pair_string, separator, nullable_idx) ==
  LET i == find_from(pair_string, <<separator>>, 1) IN
  IF i = 0
  THEN IF nullable_idx = 0 THEN <<None, pair_string>> ELSE <<pair_string, None>>
  ELSE <<SubSeq(pair_string, 1, i - 1), SubSeq(pair_string, i + 1, Len(pair_string))>>

\* label_data.add(made) followed by the rest of the loop, which ends as rest
pair_args_add(made, rest) ==
  IF made.err # "ok" THEN [err |-> made.err, data |-> {}]
  ELSE IF rest.err # "ok" THEN rest
  ELSE [err |-> "ok", data |-> {made.param} \cup rest.data]

\* parse_pair_args(labels, EnvParam): [err, data], data the set label_data
RECURSIVE parse_pair_args(_)
parse_pair_args(labels) ==
  IF labels = <<>> THEN [err |-> "ok", data |-> {}]
  ELSE pair_args_add(EnvParam(split_pair(labels[1], "=", 1)[1],
                              split_pair(labels[1], "=", 1)[2]),
                     parse_pair_args(Tail(labels)))

\* sink.add(made), the counter being at index, followed by the rest of the
\* loop, which ends as rest
file_args_add(made, index, rest) ==
  IF made.err # "ok" THEN [err |-> made.err, data |-> {}, index |-> index]
  ELSE IF rest.err # "ok" THEN rest
  ELSE [err |-> "ok", data |-> {made.param} \cup rest.data, index |-> rest.index]

\* one inner loop of args_to_job_params (lines 405-408, 416-419) over args,
\* entered with _auto_index = index: [err, data, index]
RECURSIVE file_args(_, _, _, _)
file_args(args, recursive, prefix, index) ==
  IF args = <<>> THEN [err |-> "ok", data |-> {}, index |-> index]
  ELSE LET pair == split_pair(args[1], "=", 0)
           named == get_variable_name(pair[1], prefix, index)
       IN file_args_add(make_param(named[1], pair[2], recursive), named[2],
                        file_args(Tail(args), recursive, prefix, named[2]))

\* the sequences that list every member of the set S once: the orders in which
\* iterating a Python set can yield its members
RECURSIVE Orderings(_)
Orderings(S) ==
  IF S = {} THEN {<<>>}
  ELSE UNION {{<<x>> \o rest : rest \in Orderings(S \ {x})} : x \in S}

\* the names JobParams._check_for_collisions appends to duplicates when the
\* loops visit parameters with these names in this order
RECURSIVE duplicate_names(_, _)
duplicate_names(names, known_names) ==
  IF names = <<>> THEN <<>>
  ELSE IF names[1] \notin known_names
       THEN duplicate_names(Tail(names), known_names \cup {names[1]})
       ELSE <<names[1]>> \o duplicate_names(Tail(names), known_names)

NameSeq(params) == [i \in 1..Len(params) |-> params[i].name]

\* JobParams._check_for_collisions(allinputs), the five containers iterated in
\* the orders it: the list duplicates
\* a collision check that stops at the first duplicate it meets
first_of(names) == IF names = <<>> THEN <<>> ELSE <<names[1]>>

first_collision(it) ==
  first_of(duplicate_names(NameSeq(it.envs) \o NameSeq(it.inputs)
                             \o NameSeq(it.recursive_inputs) \o NameSeq(it.outputs)
                             \o NameSeq(it.recursive_outputs), {}))

_check_for_collisions(it) ==
  duplicate_names(NameSeq(it.envs) \o NameSeq(it.inputs)
                    \o NameSeq(it.recursive_inputs) \o NameSeq(it.outputs)
                    \o NameSeq(it.recursive_outputs), {})

NoJob ==
  [envs |-> {}, inputs |-> {}, recursive_inputs |-> {}, outputs |-> {},
   recursive_outputs |-> {}]

NoIter ==
  [envs |-> <<>>, inputs |-> <<>>, recursive_inputs |-> <<>>, outputs |-> <<>>,
   recursive_outputs |-> <<>>]

\* the iteration orders the five sets of a job can have
IterOrders(j) ==
  [envs : Orderings(j.envs), inputs : Orderings(j.inputs),
   recursive_inputs : Orderings(j.recursive_inputs),
   outputs : Orderings(j.outputs),
   recursive_outputs : Orderings(j.recursive_outputs)]

\* a call that goes on counting where the call before it stopped
ArgsResumed ==
  [err |-> "ok", job |-> NoJob, input_index |-> input_index, output_index |-> output_index]

\* the state of an args_to_job_params call: the exception raised ("ok" if
\* none), the five sets built so far and the two counters
ArgsStart == [err |-> "ok", job |-> NoJob, input_index |-> 0, output_index |-> 0]

\* env_data = parse_pair_args(envs, EnvParam) (line 397)
envs_done(st, parsed) ==
  IF parsed.err # "ok" THEN [st EXCEPT !.err = parsed.err]
  ELSE [st EXCEPT !.job.envs = parsed.data]

\* the end of one input loop (lines 405-408), which filled the set sink
inputs_done(st, sink, looped) ==
  IF looped.err # "ok"
  THEN [st EXCEPT !.err = looped.err, !.job = NoJob, !.input_index = looped.index]
  ELSE [st EXCEPT !.job[sink] = looped.data, !.input_index = looped.index]

\* the end of one output loop (lines 416-419), which filled the set sink
outputs_done(st, sink, looped) ==
  IF looped.err # "ok"
  THEN [st EXCEPT !.err = looped.err, !.job = NoJob, !.output_index = looped.index]
  ELSE [st EXCEPT !.job[sink] = looped.data, !.output_index = looped.index]

\* one pass of the loop of line 404 over args
input_loop(st, args, recursive, sink) ==
  IF st.err # "ok" THEN st
  ELSE inputs_done(st, sink,
                   file_args(args, recursive, AUTO_PREFIX_INPUT, st.input_index))

\* one pass of the loop of line 415 over args
output_loop(st, args, recursive, sink) ==
  IF st.err # "ok" THEN st
  ELSE outputs_done(st, sink,
                    file_args(args, recursive, AUTO_PREFIX_OUTPUT, st.output_index))

\* args_to_job_params up to the JobParams constructor (lines 394-419):
\* [err, job, input_index, output_index]
parse_args(f) ==
  output_loop(
    output_loop(
      input_loop(
        input_loop(envs_done(ArgsStart, parse_pair_args(f.envs)),
                   f.inputs, FALSE, "inputs"),
        f.inputs_recur, TRUE, "recursive_inputs"),
      f.outputs, FALSE, "outputs"),
    f.outputs_recur, TRUE, "recursive_outputs")

(***************************************************************************)
(* Actions (pipeline_actions.py).  Strings the code only stores and copies *)
(* (action names, images, timeouts, user commands) are TLA+ strings.       *)
(***************************************************************************)
DATA_DISK_NAME == "minsubdisk"

DATA_DISK_MOUNT == <<"/", "m", "n", "t", "/", "d", "a", "t", "a">>

ONE_DAY == "86400s"

SEVEN_DAYS == "604800s"

DEFAULT_SCOPE == "https://www.googleapis.com/auth/cloud-platform"

DEFAULT_MACHINE_TYPE == "n1-standard-2"

DEFAULT_DISK_SIZE == 200

DEBIAN_IMAGE == "debian:stable-slim"

CLOUD_SDK_IMAGE == "google/cloud-sdk:slim"

\* GENERIC_BASH_SCRIPT_CMD is SCRIPT_HEAD, "%s", SCRIPT_TAIL
SCRIPT_HEAD ==
  <<"s", "e", "t", " ", "-", "o", " ", "e", "r", "r", "e", "x", "i", "t",
    "\n", "s", "e", "t", " ", "-", "o", " ", "n", "o", "u", "n", "s", "e",
    "t", "\n", "s", "e", "t", " ", "-", "o", " ", "p", "i", "p", "e", "f",
    "a", "i", "l", "\n", "\n">>

SCRIPT_TAIL == <<"\n">>

GENERIC_BASH_SCRIPT_CMD(body) == SCRIPT_HEAD \o body \o SCRIPT_TAIL

CP_CMD ==
  <<"g", "s", "u", "t", "i", "l", " ", "-", "m", "q", " ", "c", "p", " ">>

RSYNC_CMD ==
  <<"g", "s", "u", "t", "i", "l", " ", "-", "m", "q", " ", "r", "s", "y",
    "n", "c", " ", "-", "r", " ">>

\* cmd + '"%s" "%s"' % (src, dst)
copy_command(cmd, src, dst) ==
  cmd \o <<"\"">> \o src \o <<"\"", " ", "\"">> \o dst \o <<"\"">>

\* '\n'.join(lines)
RECURSIVE join_lines(_)
join_lines(lines) ==
  IF lines = <<>> THEN <<>>
  ELSE IF Len(lines) = 1 THEN lines[1]
  ELSE lines[1] \o <<"\n">> \o join_lines(Tail(lines))

\* copy_commands.append(line) for a parameter with this docker_path, followed
\* by the rest of the loop, which ends as rest; os.path.join has raised
\* TypeError when docker_path is None
lines_add(docker_path, line, rest) ==
  IF docker_path = None THEN [err |-> "TypeError", lines |-> <<>>]
  ELSE IF rest.err # "ok" THEN rest
  ELSE [err |-> "ok", lines |-> <<line>> \o rest.lines]

\* the copy commands one loop of LocalizeAction.make_commands appends for the
\* parameters params, in that order: [err, lines]
RECURSIVE localize_lines(_, _)
localize_lines(params, cmd) ==
  IF params = <<>> THEN [err |-> "ok", lines |-> <<>>]
  ELSE lines_add(params[1].docker_path,
                 copy_command(cmd, params[1].value,
                              os_path_join(DATA_DISK_MOUNT, params[1].docker_path)),
                 localize_lines(Tail(params), cmd))

\* the same for one loop of DelocalizeAction.make_commands
RECURSIVE delocalize_lines(_, _)
delocalize_lines(params, cmd) ==
  IF params = <<>> THEN [err |-> "ok", lines |-> <<>>]
  ELSE lines_add(params[1].docker_path,
                 copy_command(cmd,
                              os_path_join(DATA_DISK_MOUNT, params[1].docker_path),
                              params[1].value),
                 delocalize_lines(Tail(params), cmd))

\* ['-c', GENERIC_BASH_SCRIPT_CMD % '\n'.join(copy_commands)]
script_commands(first, second) ==
  IF first.err # "ok" THEN [err |-> first.err, commands |-> <<>>]
  ELSE IF second.err # "ok" THEN [err |-> second.err, commands |-> <<>>]
  ELSE [err |-> "ok",
        commands |-> << <<"-", "c">>,
                        GENERIC_BASH_SCRIPT_CMD(join_lines(first.lines \o second.lines)) >>]

\* LocalizeAction.make_commands, the job's sets iterated in the orders it
LocalizeAction_make_commands(it) ==
  script_commands(localize_lines(it.inputs, CP_CMD),
                  localize_lines(it.recursive_inputs, RSYNC_CMD))

\* DelocalizeAction.make_commands
DelocalizeAction_make_commands(it) ==
  script_commands(delocalize_lines(it.outputs, CP_CMD),
                  delocalize_lines(it.recursive_outputs, RSYNC_CMD))

\* the action objects
LocalizeAction == [kind |-> "localize", name |-> "localize",
                   image |-> CLOUD_SDK_IMAGE, command |-> <<>>]

DelocalizeAction == [kind |-> "delocalize", name |-> "delocalize",
                     image |-> CLOUD_SDK_IMAGE, command |-> <<>>]

UserAction(action_name, docker_image, command) ==
  [kind |-> "user", name |-> action_name, image |-> docker_image,
   command |-> command]

\* a.make_commands(): [err, commands]
make_commands(a, it) ==
  IF a.kind = "localize" THEN LocalizeAction_make_commands(it)
  ELSE IF a.kind = "delocalize" THEN DelocalizeAction_make_commands(it)
  ELSE [err |-> "ok", commands |-> a.command]

\* the dict to_dict returns when make_commands has returned cmds
action_dict(a, cmds) ==
  [err |-> cmds.err,
   dict |-> [name |-> a.name,
             imageUri |-> a.image,
             commands |-> cmds.commands,
             environment |-> <<>>,
             flags |-> <<>>,
             mounts |-> <<[disk |-> DATA_DISK_NAME, path |-> DATA_DISK_MOUNT,
                           readOnly |-> FALSE]>>,
             timeout |-> ONE_DAY,
             entrypoint |-> "/bin/bash"]]

\* GenericAction.to_dict: [err, dict]
to_dict(a, it) == action_dict(a, make_commands(a, it))

(***************************************************************************)
(* Request assembly (pipeline_api.py).  A dict is a function from its keys *)
(* to its values.                                                          *)
(***************************************************************************)
EmptyDict == <<>>

\* a binding that takes the value of every parameter, file or not
env_value_raw(v) == [err |-> "ok", value |-> v.value]

\* the value create_pipeline_request binds to the name of the parameter v
\* (lines 18-21); os.path.join raises TypeError when docker_path is None
env_value(v) ==
  IF "docker_path" \in DOMAIN v
  THEN IF v.docker_path = None THEN [err |-> "TypeError", value |-> None]
       ELSE [err |-> "ok", value |-> os_path_join(DATA_DISK_MOUNT, v.docker_path)]
  ELSE [err |-> "ok", value |-> v.value]

\* envs[name] = bound.value unless computing the value raised, followed by
\* the bindings the rest of the loop makes
envs_add(name, bound, rest) ==
  IF bound.err # "ok" THEN [err |-> bound.err, envs |-> EmptyDict]
  ELSE IF rest.err # "ok" THEN rest
  ELSE [err |-> "ok",
        envs |-> [x \in {name} \cup DOMAIN rest.envs |->
                    IF x \in DOMAIN rest.envs THEN rest.envs[x] ELSE bound.value]]

\* the loop of create_pipeline_request over the parameters params (lines
\* 15-21): [err, envs]; a later binding of a name replaces an earlier one
RECURSIVE merge_envs(_, _)
merge_envs(params, envs) ==
  IF params = <<>> THEN [err |-> "ok", envs |-> envs]
  ELSE envs_add(params[1].name, env_value(params[1]), merge_envs(Tail(params), envs))

\* a list built by putting each new dict behind the ones that follow it
dicts_add_behind(d, rest) ==
  IF d.err # "ok" THEN [err |-> d.err, dicts |-> <<>>]
  ELSE IF rest.err # "ok" THEN rest
  ELSE [err |-> "ok", dicts |-> rest.dicts \o <<d.dict>>]

\* the list comprehension of line 24, a.to_dict() having returned d for its
\* first action and the rest of the list ending as rest
dicts_add(d, rest) ==
  IF d.err # "ok" THEN [err |-> d.err, dicts |-> <<>>]
  ELSE IF rest.err # "ok" THEN rest
  ELSE [err |-> "ok", dicts |-> <<d.dict>> \o rest.dicts]

\* [a.to_dict() for a in actions]: [err, dicts]
RECURSIVE actions_to_dicts(_, _)
actions_to_dicts(as, it) ==
  IF as = <<>> THEN [err |-> "ok", dicts |-> <<>>]
  ELSE dicts_add(to_dict(as[1], it), actions_to_dicts(Tail(as), it))

\* ResourcesConfig('dros-helper', 'us-west1') of test_manual.main.  The code
\* tests the truth of service_account, so it is a modelled str (a sequence of
\* characters) or None, the default
RESOURCES ==
  [project |-> "dros-helper", region |-> "us-west1",
   machine_type |-> DEFAULT_MACHINE_TYPE, disk_size |-> DEFAULT_DISK_SIZE,
   service_account |-> None, scopes |-> <<DEFAULT_SCOPE>>]

\* 'email' is added when service_account is truthy: neither None nor ''
_create_resources(rconfig) ==
  LET account == IF rconfig.service_account # None /\ rconfig.service_account # <<>>
                 THEN [scopes |-> rconfig.scopes, email |-> rconfig.service_account]
                 ELSE [scopes |-> rconfig.scopes]
  IN [projectId |-> rconfig.project,
      regions |-> <<rconfig.region>>,
      virtualMachine |->
        [machineType |-> rconfig.machine_type,
         preemptible |-> FALSE,
         disks |-> <<[name |-> DATA_DISK_NAME, sizeGb |-> rconfig.disk_size]>>,
         serviceAccount |-> account]]

\* the value create_pipeline_request returns (lines 22-32) once the loop over
\* the parameters has ended as envs and the list comprehension as dicts
request(resources_config, envs, dicts, timeout) ==
  IF envs.err # "ok" THEN [err |-> envs.err, doc |-> <<>>]
  ELSE IF dicts.err # "ok" THEN [err |-> dicts.err, doc |-> <<>>]
  ELSE [err |-> "ok",
        doc |-> <<[pipeline |-> [actions |-> dicts.dicts,
                                 resources |-> _create_resources(resources_config),
                                 environment |-> envs.envs,
                                 timeout |-> timeout],
                   labels |-> [minsub |-> "v1"]]>>]

\* create_pipeline_request(resources_config, job_config, actions, timeout),
\* the sets of job_config iterated in the orders it: [err, doc], doc the list
\* of the one document returned, empty when an exception is raised
create_pipeline_request(resources_config, it, as, timeout) ==
  request(resources_config,
          merge_envs(it.envs \o it.inputs \o it.recursive_inputs
                       \o it.outputs \o it.recursive_outputs, EmptyDict),
          actions_to_dicts(as, it),
          timeout)

(***************************************************************************)
(* The driver: test_manual.main run on bounded flag lists, twice.          *)
(***************************************************************************)
\* the flags each class of parameter is drawn from
EnvFlags ==
  {<<"A", "=", "1">>, <<"A", "=", "2">>, <<"A", "\n", "=", "1">>, <<"=", "1">>}

InputFlags ==
  {<<"g", "s", ":", "/", "/", "b", "/", "f">>,
   <<"I", "N", "P", "U", "T", "_", "0", "=", "g", "s", ":", "/", "/", "b", "/", "f">>,
   <<"A", "=">>}

InputRecurFlags == {<<"g", "s", ":", "/", "/", "b", "/", "d">>}

OutputFlags ==
  {<<"g", "s", ":", "/", "/", "b", "/", "o">>,
   <<"I", "N", "P", "U", "T", "_", "0", "=", "g", "s", ":", "/", "/", "b", "/", "p">>}

OutputRecurFlags ==
  {<<"A", "=", "g", "s", ":", "/", "/", "b", "/", "d", "/">>,
   <<"g", "s", ":", "/", "/", "b", "/", "[">>}

\* the user steps main can be given
UserSteps ==
  {UserAction("evan-run", DEBIAN_IMAGE, <<"/bin/bash", "-c", "echo \"${A}\" && echo \"${F1}\"">>),
   UserAction("report", CLOUD_SDK_IMAGE, <<"/bin/bash", "-c", "ls">>)}

\* the lists of at most n members of pool
ListsOf(pool, n) == UNION {[1..k -> pool] : k \in 0..n}

\* the lists of at most n user steps, no step given twice
StepLists(n) ==
  {l \in ListsOf(UserSteps, n) : \A i, j \in 1..Len(l) : l[i] = l[j] => i = j}

\* no direct parse_uri call
NoCall == [raw_uri |-> <<>>, recursive |-> FALSE]

\* a direct parse_uri call that has not returned
Pending == [err |-> "pending", docker_path |-> None, uri |-> NoUri]

NoErr == [kind |-> "none", names |-> <<>>]

NoPrev == [pc |-> "none", err |-> NoErr, doc |-> <<>>]

Idle == [err |-> "idle", docker_path |-> None, uri |-> NoUri]

Fresh ==
  /\ pc = "start"
  /\ input_index = 0
  /\ output_index = 0
  /\ data = NoJob
  /\ job = NoJob
  /\ iter = NoIter
  /\ err = NoErr
  /\ actions = <<>>
  /\ doc = <<>>

Init ==
  /\ \E e \in ListsOf(EnvFlags, MaxFlags) :
       \E i \in ListsOf(InputFlags, MaxFlags - Len(e)) :
         \E ri \in ListsOf(InputRecurFlags, MaxFlags - Len(e) - Len(i)) :
           \E o \in ListsOf(OutputFlags, MaxFlags - Len(e) - Len(i) - Len(ri)) :
             \E ro \in ListsOf(OutputRecurFlags,
                               MaxFlags - Len(e) - Len(i) - Len(ri) - Len(o)) :
               flags = [envs |-> e, inputs |-> i, inputs_recur |-> ri,
                        outputs |-> o, outputs_recur |-> ro]
  /\ steps \in StepLists(MaxSteps)
  /\ Fresh
  /\ run = "first"
  /\ prev = NoPrev
  /\ uri_call = NoCall
  /\ uri_ret = Idle

\* JobParams(...) (lines 421-427) on what the loops have built
job_params(parsed) ==
  /\ input_index' = parsed.input_index
  /\ output_index' = parsed.output_index
  /\ data' = parsed.job
  /\ IF parsed.err # "ok"
     THEN /\ err' = [kind |-> parsed.err, names |-> <<>>]
          /\ pc' = "failed"
          /\ UNCHANGED <<job, iter>>
     ELSE \E it \in IterOrders(parsed.job) :
            IF _check_for_collisions(it) # <<>>
            THEN /\ err' = [kind |-> "duplicate", names |-> _check_for_collisions(it)]
                 /\ pc' = "failed"
                 /\ UNCHANGED <<job, iter>>
            ELSE /\ job' = parsed.job
                 /\ iter' = it
                 /\ pc' = "params"
                 /\ UNCHANGED err

\* job = param_util.args_to_job_params(...)
ArgsToJobParams ==
  /\ pc = "start"
  /\ job_params(parse_args(flags))
  /\ UNCHANGED <<flags, steps, actions, doc, run, prev, uri_call, uri_ret>>

\* actions = [LocalizeAction(job), UserAction(job, ...), ..., DelocalizeAction(job)]
MakeActions ==
  /\ pc = "params"
  /\ actions' = <<LocalizeAction>> \o steps \o <<DelocalizeAction>>
  /\ pc' = "actions"
  /\ UNCHANGED <<flags, steps, input_index, output_index, data, job, iter, err, doc,
                 run, prev, uri_call, uri_ret>>

\* main binds plr, or ends with the exception
request_made(made) ==
  IF made.err # "ok"
  THEN /\ err' = [kind |-> made.err, names |-> <<>>]
       /\ pc' = "failed"
       /\ UNCHANGED doc
  ELSE /\ doc' = made.doc
       /\ pc' = "done"
       /\ UNCHANGED err

\* plr = pipeline_api.create_pipeline_request(res, job, actions)
CreatePipelineRequest ==
  /\ pc = "actions"
  /\ request_made(create_pipeline_request(RESOURCES, iter, actions, SEVEN_DAYS))
  /\ UNCHANGED <<flags, steps, input_index, output_index, data, job, iter, actions,
                 run, prev, uri_call, uri_ret>>

\* the program is started again, in a new process, on the same arguments
Rerun ==
  /\ pc \in {"done", "failed"}
  /\ run = "first"
  /\ run' = "second"
  /\ prev' = [pc |-> pc, err |-> err, doc |-> doc]
  /\ pc' = "start"
  /\ input_index' = 0
  /\ output_index' = 0
  /\ data' = NoJob
  /\ job' = NoJob
  /\ iter' = NoIter
  /\ err' = NoErr
  /\ actions' = <<>>
  /\ doc' = <<>>
  /\ UNCHANGED <<flags, steps, uri_call, uri_ret>>

Next == ArgsToJobParams \/ MakeActions \/ CreatePipelineRequest \/ Rerun

Spec == Init /\ [][Next]_vars

(***************************************************************************)
(* args_to_job_params called again and again in one process.               *)
(***************************************************************************)
\* the flags of the later calls: one that succeeds with unnamed inputs and
\* outputs, one that fails after naming an input, one with outputs only
AgainFlags ==
  {[envs |-> <<>>,
    inputs |-> <<<<"g", "s", ":", "/", "/", "b", "/", "f">>>>,
    inputs_recur |-> <<<<"g", "s", ":", "/", "/", "b", "/", "d">>>>,
    outputs |-> <<<<"g", "s", ":", "/", "/", "b", "/", "o">>>>,
    outputs_recur |-> <<>>],
   [envs |-> <<>>,
    inputs |-> <<<<"g", "s", ":", "/", "/", "b", "/", "f">>>>,
    inputs_recur |-> <<>>,
    outputs |-> <<>>,
    outputs_recur |-> <<<<"g", "s", ":", "/", "/", "b", "/", "[">>>>],
   [envs |-> <<>>,
    inputs |-> <<>>,
    inputs_recur |-> <<>>,
    outputs |-> <<<<"g", "s", ":", "/", "/", "b", "/", "o">>,
                  <<"I", "N", "P", "U", "T", "_", "0", "=",
                    "g", "s", ":", "/", "/", "b", "/", "p">>>>,
    outputs_recur |-> <<>>]}

InitCalls ==
  /\ \E e \in ListsOf(EnvFlags, MaxFlags) :
       \E i \in ListsOf(InputFlags, MaxFlags - Len(e)) :
         \E ri \in ListsOf(InputRecurFlags, MaxFlags - Len(e) - Len(i)) :
           \E o \in ListsOf(OutputFlags, MaxFlags - Len(e) - Len(i) - Len(ri)) :
             \E ro \in ListsOf(OutputRecurFlags,
                               MaxFlags - Len(e) - Len(i) - Len(ri) - Len(o)) :
               flags = [envs |-> e, inputs |-> i, inputs_recur |-> ri,
                        outputs |-> o, outputs_recur |-> ro]
  /\ steps = <<>>
  /\ Fresh
  /\ run = "first"
  /\ prev = NoPrev
  /\ uri_call = NoCall
  /\ uri_ret = Idle

\* the caller drops what the call gave and prepares the next call; the
\* FileParamUtil objects of the call before still hold their counters, the
\* next call makes its own (lines 394-395)
CallAgain ==
  /\ pc \in {"params", "failed"}
  /\ run \in {"first", "second"}
  /\ run' = IF run = "first" THEN "second" ELSE "third"
  /\ flags' \in AgainFlags
  /\ prev' = [pc |-> pc, err |-> err, doc |-> doc]
  /\ pc' = "start"
  /\ data' = NoJob
  /\ job' = NoJob
  /\ iter' = NoIter
  /\ err' = NoErr
  /\ UNCHANGED <<steps, input_index, output_index, actions, doc, uri_call, uri_ret>>

NextCalls == ArgsToJobParams \/ CallAgain

SpecCalls == InitCalls /\ [][NextCalls]_vars

(***************************************************************************)
(* Direct calls of parse_uri on bounded raw URIs.                          *)
(***************************************************************************)
TailChars == {"/", ".", "*", "[", "]", "?", "a"}

SchemePrefixes == {GS_PREFIX, <<"g", "s", ":", "/">>, <<"s", "3", ":", "/", "/">>, <<>>}

Tails == UNION {[1..n -> TailChars] : n \in 0..MaxTail}

RawUris == {p \o t : p \in SchemePrefixes, t \in Tails}

PipelineIdle ==
  /\ flags = [envs |-> <<>>, inputs |-> <<>>, inputs_recur |-> <<>>,
              outputs |-> <<>>, outputs_recur |-> <<>>]
  /\ steps = <<>>
  /\ pc = "idle"
  /\ input_index = 0
  /\ output_index = 0
  /\ data = NoJob
  /\ job = NoJob
  /\ iter = NoIter
  /\ err = NoErr
  /\ actions = <<>>
  /\ doc = <<>>
  /\ run = "none"
  /\ prev = NoPrev

InitUri ==
  /\ PipelineIdle
  /\ uri_call \in [raw_uri : RawUris, recursive : BOOLEAN]
  /\ uri_ret = Pending

ParseUri ==
  /\ uri_ret = Pending
  /\ uri_ret' = parse_uri(uri_call.raw_uri, uri_call.recursive)
  /\ UNCHANGED uri_call
  /\ UNCHANGED pipeline_vars

NextUri == ParseUri

SpecUri == InitUri /\ [][NextUri]_vars

(***************************************************************************)
(* Claims about a run of the driver, checked under Spec.                   *)
(***************************************************************************)
Classes == {"envs", "inputs", "recursive_inputs", "outputs", "recursive_outputs"}

FileClasses == Classes \ {"envs"}

Range(s) == {s[i] : i \in DOMAIN s}

\* args_to_job_params has raised
ArgsFailed == pc = "failed" /\ err.kind # "TypeError"

\* args_to_job_params has returned a job parameter set
ArgsReturned ==
  \/ pc \in {"params", "actions", "done"}
  \/ pc = "failed" /\ err.kind = "TypeError"

\* the flag loops have run to their end and JobParams(...) has been called
Constructed == pc # "start" /\ err.kind \in {"none", "duplicate", "TypeError"}

NamesIn(j, c) == {p.name : p \in j[c]}

AllNames(j) == UNION {NamesIn(j, c) : c \in Classes}

\* the names that occur in two of the five classes of j
InTwoClasses(j) ==
  {n \in AllNames(j) :
     \E c1, c2 \in Classes : c1 # c2 /\ n \in NamesIn(j, c1) /\ n \in NamesIn(j, c2)}

\* the names that two different parameters of one class of j carry
TwiceInClass(j) ==
  {n \in AllNames(j) :
     \E c \in Classes : \E p, q \in j[c] : p # q /\ p.name = n /\ q.name = n}

\* construction on the collections j failed on duplicate names and the error
\* lists every name of two, and only names that are repeated
FailedOn(j, two, twice) ==
  /\ ArgsFailed
  /\ err.kind = "duplicate"
  /\ job = NoJob
  /\ two \subseteq Range(err.names)
  /\ Range(err.names) \subseteq two \cup twice

\* construction on the collections j returned them, all names distinct
ReturnedDistinct(j) ==
  /\ ArgsReturned
  /\ job = j
  /\ \A c1, c2 \in Classes : \A p \in job[c1] : \A q \in job[c2] :
       (c1 # c2 \/ p # q) => p.name # q.name

Collisions(j, two, twice) ==
  /\ two # {} => FailedOn(j, two, twice)
  /\ two \cup twice = {} => ReturnedDistinct(j)

CollisionsOf(j) == Collisions(j, InTwoClasses(j), TwiceInClass(j))

\* C1: when the flags parse to collections in which a name occurs in two
\* classes, construction fails with the duplicate-name error and the error
\* lists every such name; when no name is repeated, construction succeeds
\* and the names of the members are pairwise distinct.
C1_CollisionsReported == Constructed => CollisionsOf(data)

\* construction failed on two different names, each in two classes
C1_Witness ==
  /\ ArgsFailed
  /\ err.kind = "duplicate"
  /\ Cardinality(Range(err.names)) >= 2
  /\ Cardinality(InTwoClasses(data)) >= 2

\* C3 (as claimed): two runs on the same flags and steps that both produce a
\* request document produce the same document.
C3_SameDocument ==
  (run = "second" /\ pc = "done" /\ prev.pc = "done") => doc = prev.doc

\* the name a flag gives explicitly: what precedes its first "=", the whole
\* flag of an env flag that has none
HasEquals(flag) == \E i \in 1..Len(flag) : flag[i] = "="

BeforeEquals(flag) ==
  SubSeq(flag, 1, (CHOOSE i \in 1..Len(flag) :
                     flag[i] = "=" /\ \A k \in 1..(i - 1) : flag[k] # "=") - 1)

AfterEquals(flag) ==
  SubSeq(flag, 1 + (CHOOSE i \in 1..Len(flag) :
                      flag[i] = "=" /\ \A k \in 1..(i - 1) : flag[k] # "="), Len(flag))

EnvName(flag) == IF HasEquals(flag) THEN BeforeEquals(flag) ELSE flag

\* a file flag that gives no name
Unnamed(flag) == ~HasEquals(flag) \/ BeforeEquals(flag) = <<>>

FileValue(flag) == IF HasEquals(flag) THEN AfterEquals(flag) ELSE flag

\* ^[A-Za-z_][A-Za-z0-9_]*$ read as a pattern on the whole string
IsPosixName(n) ==
  /\ n # <<>>
  /\ n[1] \in Letters \cup {"_"}
  /\ \A i \in 2..Len(n) : n[i] \in Letters \cup {"_"} \cup Range(Digits)

FlagsOf(c) ==
  CASE c = "envs" -> flags.envs
    [] c = "inputs" -> flags.inputs
    [] c = "recursive_inputs" -> flags.inputs_recur
    [] c = "outputs" -> flags.outputs
    [] c = "recursive_outputs" -> flags.outputs_recur

\* the names the flags of class c give explicitly
ExplicitNames(c) ==
  IF c = "envs" THEN {EnvName(f) : f \in Range(flags.envs)}
  ELSE {BeforeEquals(f) : f \in {g \in Range(FlagsOf(c)) : ~Unnamed(g)}}

\* C4 (as claimed): a name given explicitly that matches the pattern is
\* carried unchanged by a parameter of its class, and one that does not match
\* makes construction fail, no job parameter set being produced.
C4_NamesValidated ==
  pc # "start" =>
    \A c \in Classes : \A n \in ExplicitNames(c) :
      /\ (IsPosixName(n) /\ ArgsReturned) => n \in NamesIn(job, c)
      /\ ~IsPosixName(n) => (ArgsFailed /\ job = NoJob)

\* the unnamed flags among args, in order
RECURSIVE UnnamedOf(_)
UnnamedOf(args) ==
  IF args = <<>> THEN <<>>
  ELSE (IF Unnamed(args[1]) THEN <<args[1]>> ELSE <<>>) \o UnnamedOf(Tail(args))

\* the name the claim gives the k-th unnamed flag (k counted from 0)
AutoName(prefix, k) == prefix \o int_str(k)

\* the unnamed flags of the two classes first and second, in encounter order,
\* are named prefix_0, prefix_1, ... in the job
AutoNamed(first, second, prefix, c1, c2) ==
  /\ \A k \in 1..Len(UnnamedOf(first)) :
       AutoName(prefix, k - 1) \in NamesIn(job, c1)
  /\ \A k \in 1..Len(UnnamedOf(second)) :
       AutoName(prefix, Len(UnnamedOf(first)) + k - 1) \in NamesIn(job, c2)

\* some flag of some class gives the name n explicitly
GivenExplicitly(n) == \E c \in Classes : n \in ExplicitNames(c)

\* C5 (as claimed): in a returned job the k-th unnamed input is INPUT_k and
\* the k-th unnamed output is OUTPUT_k, and an explicit INPUT_0 together with
\* an unnamed input makes construction fail.
C5_AutoNames ==
  pc # "start" =>
    /\ ArgsReturned =>
         /\ AutoNamed(flags.inputs, flags.inputs_recur, AUTO_PREFIX_INPUT,
                      "inputs", "recursive_inputs")
         /\ AutoNamed(flags.outputs, flags.outputs_recur, AUTO_PREFIX_OUTPUT,
                      "outputs", "recursive_outputs")
    /\ (/\ GivenExplicitly(AutoName(AUTO_PREFIX_INPUT, 0))
        /\ UnnamedOf(flags.inputs \o flags.inputs_recur) # <<>>) => ArgsFailed

\* the script of the action at position i of the document
ScriptOf(i) == doc[1].pipeline.actions[i].commands[2]

\* the scripts that hold one copy line per parameter of singles and one sync
\* line per parameter of trees and nothing else, in some order within each
ScriptsOver(singles, trees, line(_, _)) ==
  {GENERIC_BASH_SCRIPT_CMD(join_lines([i \in 1..Len(o1) |-> line(CP_CMD, o1[i])]
                                        \o [i \in 1..Len(o2) |-> line(RSYNC_CMD, o2[i])])) :
     o1 \in Orderings(singles), o2 \in Orderings(trees)}

\* stage-in line: from the external URI to the mount path under /mnt/data
StageInLine(cmd, p) ==
  copy_command(cmd, UriStr(p.uri), DATA_DISK_MOUNT \o <<"/">> \o p.docker_path)

\* stage-out line: source and destination swapped
StageOutLine(cmd, p) ==
  copy_command(cmd, DATA_DISK_MOUNT \o <<"/">> \o p.docker_path, UriStr(p.uri))

\* C8 (as claimed): the stage-in script is one cp line per input and one
\* rsync -r line per recursive input, from the external URI to the mount
\* path, and nothing else; the stage-out script mirrors it.
C8_CopyLines ==
  pc = "done" =>
    /\ ScriptOf(1) \in ScriptsOver(job.inputs, job.recursive_inputs, StageInLine)
    /\ ScriptOf(Len(doc[1].pipeline.actions))
         \in ScriptsOver(job.outputs, job.recursive_outputs, StageOutLine)

\* the environment map of the document
Environment == doc[1].pipeline.environment

\* C9: the environment map has one entry per parameter of the job and no
\* other: the literal value of an env parameter, /mnt/data joined with the
\* mount path of a file parameter, ending in "/" for a recursive one.
C9_EnvironmentMap ==
  pc = "done" =>
    /\ DOMAIN Environment = AllNames(job)
    /\ Cardinality(DOMAIN Environment)
         = Cardinality(job.envs) + Cardinality(job.inputs)
           + Cardinality(job.recursive_inputs) + Cardinality(job.outputs)
           + Cardinality(job.recursive_outputs)
    /\ \A p \in job.envs : Environment[p.name] = p.value
    /\ \A c \in FileClasses : \A p \in job[c] :
         /\ Environment[p.name] = DATA_DISK_MOUNT \o <<"/">> \o p.docker_path
         /\ p.recursive => endswith(Environment[p.name], <<"/">>)

\* a document was built for an env, a file and a recursive file parameter
C9_Witness ==
  /\ pc = "done"
  /\ job.envs # {}
  /\ job.outputs # {}
  /\ job.recursive_inputs # {}

\* the actions of the document
Actions == doc[1].pipeline.actions

\* C10: the actions of the document are stage-in, then the user steps in the
\* order given, then stage-out: stage-in is first and occurs once, stage-out
\* is last and occurs once.
C10_ActionOrder ==
  pc = "done" =>
    /\ Len(Actions) = Len(steps) + 2
    /\ Actions[1].name = "localize"
    /\ Actions[Len(Actions)].name = "delocalize"
    /\ \A i \in 1..Len(steps) :
         /\ Actions[i + 1].name = steps[i].name
         /\ Actions[i + 1].imageUri = steps[i].image
         /\ Actions[i + 1].commands = steps[i].command
    /\ \A i \in 1..Len(Actions) :
         /\ Actions[i].name = "localize" => i = 1
         /\ Actions[i].name = "delocalize" => i = Len(Actions)

\* a document was built for two user steps
C10_Witness == pc = "done" /\ Len(steps) = 2

\* C13 (as claimed): a job parameter set that args_to_job_params returned
\* goes through the rest of the run: the stage-in and stage-out commands are
\* generated for it and create_pipeline_request does not raise.
C13_CarriedThrough ==
  ArgsReturned =>
    /\ pc # "failed"
    /\ LocalizeAction_make_commands(iter).err = "ok"
    /\ DelocalizeAction_make_commands(iter).err = "ok"

\* the explicit name of the flag f of class c, if it has one
HasExplicitName(c, f) == c = "envs" \/ ~Unnamed(f)

ExplicitNameOf(c, f) == IF c = "envs" THEN EnvName(f) ELSE BeforeEquals(f)

\* two flags of class c give the same explicit name
RepeatedIn(c) ==
  \E i, j \in DOMAIN FlagsOf(c) :
    /\ i < j
    /\ HasExplicitName(c, FlagsOf(c)[i])
    /\ HasExplicitName(c, FlagsOf(c)[j])
    /\ ExplicitNameOf(c, FlagsOf(c)[i]) = ExplicitNameOf(c, FlagsOf(c)[j])

\* C14 (as claimed): two flags of one class with the same explicit name make
\* args_to_job_params fail, with the duplicate-name error when the flag loops
\* ran to their end, whether the two values differ or not.
C14_RepeatsRejected ==
  pc # "start" =>
    \A c \in Classes :
      RepeatedIn(c) =>
        /\ ArgsFailed
        /\ job = NoJob
        /\ Constructed => err.kind = "duplicate"

(***************************************************************************)
(* Claims about repeated calls, checked under SpecCalls.                   *)
(***************************************************************************)
\* C12: whatever calls came before, a call numbers its unnamed inputs from
\* INPUT_0 and its unnamed outputs from OUTPUT_0, and when its loops have run
\* to their end each counter is the number of unnamed flags of its own kind.
C12_CountersPerCall ==
  pc # "start" =>
    /\ ArgsReturned =>
         /\ AutoNamed(flags.inputs, flags.inputs_recur, AUTO_PREFIX_INPUT,
                      "inputs", "recursive_inputs")
         /\ AutoNamed(flags.outputs, flags.outputs_recur, AUTO_PREFIX_OUTPUT,
                      "outputs", "recursive_outputs")
    /\ Constructed =>
         /\ input_index = Len(UnnamedOf(flags.inputs \o flags.inputs_recur))
         /\ output_index = Len(UnnamedOf(flags.outputs \o flags.outputs_recur))

\* a third call returned two auto-named inputs and an auto-named output
\* after a call that failed
C12_Witness ==
  /\ run = "third"
  /\ ArgsReturned
  /\ prev.pc = "failed"
  /\ input_index = 2
  /\ output_index = 1
  /\ AutoName(AUTO_PREFIX_INPUT, 1) \in NamesIn(job, "recursive_inputs")
  /\ AutoName(AUTO_PREFIX_OUTPUT, 0) \in NamesIn(job, "outputs")

(***************************************************************************)
(* Claims about parse_uri, checked under SpecUri.                          *)
(***************************************************************************)
Returned == uri_ret # Pending

Accepted == Returned /\ uri_ret.err = "ok"

Rejected == Returned /\ uri_ret.err # "ok"

\* the raw URI after the trailing-slash coercion of recursive references
CoercedCall ==
  IF uri_call.recursive THEN rstrip(uri_call.raw_uri, "/") \o <<"/">>
  ELSE uri_call.raw_uri

\* everything up to and including the last "/" of u, and what follows it
DirectoryPrefix(u) == SubSeq(u, 1, rfind(u, "/"))

Basename(u) == SubSeq(u, rfind(u, "/") + 1, Len(u))

\* s has a path segment equal to ".."
HasDotDotSegment(s) ==
  contains(<<"/">> \o s \o <<"/">>, <<"/", ".", ".", "/">>)

\* C2 (as claimed): every accepted URI has a mount path that does not begin
\* with "/" and has no ".." segment.
C2_MountPathInsideRoot ==
  Accepted =>
    /\ ~startswith(uri_ret.docker_path, <<"/">>)
    /\ ~HasDotDotSegment(uri_ret.docker_path)

\* rules (a)-(e) of C6 applied to the URI u
ViolatesRules(u, recursive) ==
  \/ contains(u, <<"[">>) \/ contains(u, <<"]">>) \/ contains(u, <<"?">>)
  \/ contains(DirectoryPrefix(u), <<"*">>)
  \/ contains(Basename(u), <<"*", "*">>)
  \/ Basename(u) \in {<<".">>, <<".", ".">>}
  \/ (~recursive /\ Basename(u) = <<>>)

RulesDecide(u, recursive) ==
  /\ ViolatesRules(u, recursive) =>
       /\ Rejected
       /\ uri_ret.docker_path = None
       /\ uri_ret.uri = NoUri
  /\ (startswith(u, GS_PREFIX) /\ ~ViolatesRules(u, recursive)) => Accepted

\* C6 (as claimed): rules (a)-(e), read on the URI as given, decide
\* rejection, and a gs:// URI that violates none of them is accepted.
C6_RulesOnRawUri ==
  Returned => RulesDecide(uri_call.raw_uri, uri_call.recursive)

\* C6 (amended): rules (a)-(e), read on the URI after the trailing-slash
\* coercion of recursive references, decide rejection, and a URI that then
\* starts with gs:// and violates none of them is accepted.
C6_RulesOnCoercedUri ==
  Returned => RulesDecide(CoercedCall, uri_call.recursive)

\* a non-recursive URI whose basename is ".." was rejected for it
C6_Witness ==
  /\ Returned
  /\ ~uri_call.recursive
  /\ startswith(uri_call.raw_uri, GS_PREFIX)
  /\ Basename(uri_call.raw_uri) = <<".", ".">>
  /\ uri_ret.err = "dot_filename"

\* C7 (as claimed): the external URI returned for an accepted URI is the
\* input after the trailing-slash coercion, and normalizing it again
\* succeeds and returns it again.
C7_ExternalUriUnchanged ==
  Accepted =>
    /\ UriStr(uri_ret.uri) = CoercedCall
    /\ endswith(uri_ret.uri.path, <<"/">>)
    /\ parse_uri(UriStr(uri_ret.uri), uri_call.recursive).err = "ok"
    /\ parse_uri(UriStr(uri_ret.uri), uri_call.recursive).uri = uri_ret.uri

\* the number of the first rule of the spec's list that the URI u violates:
\* 2 brackets and question marks, 3 directory wildcard, "**" and dot
\* basename, 4 missing basename, 5 provider; 0 when it violates none
LowestViolatedRule(u, recursive) ==
  IF contains(u, <<"[">>) \/ contains(u, <<"]">>) \/ contains(u, <<"?">>) THEN 2
  ELSE IF \/ contains(DirectoryPrefix(u), <<"*">>)
          \/ contains(Basename(u), <<"*", "*">>)
          \/ Basename(u) \in {<<".">>, <<".", ".">>} THEN 3
  ELSE IF ~recursive /\ Basename(u) = <<>> THEN 4
  ELSE IF ~startswith(u, GS_PREFIX) THEN 5
  ELSE 0

\* the rule whose error parse_uri ended with, 0 when it returned
RuleOfError(e) ==
  CASE e \in {"bracket", "question"} -> 2
    [] e \in {"path_wildcard", "recursive_wildcard", "dot_filename"} -> 3
    [] e = "no_filename" -> 4
    [] e = "provider" -> 5
    [] e = "ok" -> 0

\* C11 (as claimed): parse_uri ends with the error of the lowest-numbered
\* rule that the coerced URI violates, so the provider error is given only
\* to URIs that pass rules 2-4.
C11_ChecksInListedOrder ==
  Returned =>
    RuleOfError(uri_ret.err) = LowestViolatedRule(CoercedCall, uri_call.recursive)

====
